---- MODULE Spec2Model ----
(***************************************************************************)
(* A model of title.py: the title-inference pipeline for a PDF file.       *)
(*                                                                         *)
(* Strings are sequences of characters; a character is a one-character    *)
(* TLA+ string ("e_acute" stands for the one non-ASCII code point the      *)
(* model uses).  Floating-point quantities are exact integers in a fixed   *)
(* unit: font sizes and y0 in units of 5e-7, glyph x-coordinates in units  *)
(* of 0.01.  Rounding of IEEE doubles is not modelled.                     *)
(***************************************************************************)
EXTENDS Integers, Sequences, FiniteSets, TLC

(***************************************************************************)
(* Program constants (title.py lines 33-37).                               *)
(***************************************************************************)
MIN_CHARS == 6
MAX_WORDS == 20
MAX_CHARS == MAX_WORDS * 10
\* TOLERANCE = 1e-06, in units of 5e-7
TOLERANCE == 2
\* 1 / TOLERANCE as a pure number: a relative tolerance of 1e-06
TOLERANCE_INV == 1000000
\* CHAR_PARSING_STATE = make_parsing_state('INIT_X', 'INIT_D', 'INSIDE_WORD')
INIT_X == 0
INIT_D == 1
INSIDE_WORD == 2

(***************************************************************************)
(* Characters and Python's str primitives.                                 *)
(***************************************************************************)
LowerSeq == <<"a","b","c","d","e","f","g","h","i","j","k","l","m","n","o","p","q","r","s","t","u","v","w","x","y","z">>
UpperSeq == <<"A","B","C","D","E","F","G","H","I","J","K","L","M","N","O","P","Q","R","S","T","U","V","W","X","Y","Z">>
DigitSeq == <<"0","1","2","3","4","5","6","7","8","9">>
Range(s) == {s[i] : i \in 1..Len(s)}
\* string.ascii_letters, string.digits
ascii_letters == Range(LowerSeq) \cup Range(UpperSeq)
digits == Range(DigitSeq)
\* the characters str.strip() removes and the regex class \s matches
Whitespace == {" ", "\t", "\n", "\r", "\f"}

Abs(n) == IF n < 0 THEN -n ELSE n
Max(a, b) == IF a >= b THEN a ELSE b
Min(a, b) == IF a <= b THEN a ELSE b

\* s[i:j] of Python, on 1-based positions i..j
Slice(s, i, j) == IF i > j THEN <<>> ELSE SubSeq(s, i, j)

\* str.strip()
Strip(s) ==
    LET keep == {i \in 1..Len(s) : s[i] \notin Whitespace}
    IN  IF keep = {} THEN <<>>
        ELSE LET lo == CHOOSE i \in keep : \A k \in keep : i <= k
                 hi == CHOOSE i \in keep : \A k \in keep : i >= k
             IN  SubSeq(s, lo, hi)

\* str.lower(), one character
LowerChar(c) ==
    IF c \in Range(UpperSeq)
    THEN LowerSeq[CHOOSE i \in 1..Len(UpperSeq) : UpperSeq[i] = c]
    ELSE c

\* str.lower()
Lower(s) == [i \in 1..Len(s) |-> LowerChar(s[i])]

\* the concatenation of the pieces f[lo], ..., f[hi], by halves
RECURSIVE Cat(_, _, _)
Cat(f, lo, hi) ==
    IF lo > hi THEN <<>>
    ELSE IF lo = hi THEN f[lo]
    ELSE LET mid == (lo + hi) \div 2
         IN  Cat(f, lo, mid) \o Cat(f, mid + 1, hi)

\* ''.join(c for c in s if c in keep)
Filter(s, keep) ==
    Cat([i \in 1..Len(s) |-> IF s[i] \in keep THEN <<s[i]>> ELSE <<>>], 1, Len(s))

\* s.split(sep) for a one-character separator: the pieces, empty ones included
Split(s, sep) ==
    LET at == {i \in 1..Len(s) : s[i] = sep}
        n == Cardinality(at)
        Pos(k) == IF k = 0 THEN 0
                  ELSE IF k = n + 1 THEN Len(s) + 1
                  ELSE CHOOSE i \in at : Cardinality({j \in at : j < i}) = k - 1
    IN  [k \in 1..(n + 1) |-> Slice(s, Pos(k - 1) + 1, Pos(k) - 1)]

\* sep.join(pieces)
Join(pieces, sep) ==
    Cat([k \in 1..Len(pieces) |-> IF k = 1 THEN pieces[1] ELSE sep \o pieces[k]],
        1, Len(pieces))

\* s.split(): the maximal runs of non-whitespace characters
SplitWs(s) ==
    LET starts == {i \in 1..Len(s) :
                      s[i] \notin Whitespace /\ (i = 1 \/ s[i - 1] \in Whitespace)}
        Start(k) == CHOOSE i \in starts : Cardinality({j \in starts : j < i}) = k - 1
        End(i) == CHOOSE j \in i..Len(s) :
                      /\ \A m \in i..j : s[m] \notin Whitespace
                      /\ (j = Len(s) \/ s[j + 1] \in Whitespace)
    IN  [k \in 1..Cardinality(starts) |-> Slice(s, Start(k), End(Start(k)))]

\* the literal w occurs in s at position i
MatchAt(s, i, w) ==
    /\ i >= 1
    /\ i + Len(w) - 1 <= Len(s)
    /\ \A k \in 1..Len(w) : s[i + k - 1] = w[k]

\* re.sub of a one-character pattern by a string
SubChars(s, chars, by) ==
    Cat([i \in 1..Len(s) |-> IF s[i] \in chars THEN by ELSE <<s[i]>>], 1, Len(s))

\* re.sub of a literal pattern by a string.  The pattern is one no proper
\* prefix of which is also its suffix (as ": "), so that its occurrences
\* never overlap and every one of them is replaced.
SubLiteral(s, pat, by) ==
    Cat([i \in 1..Len(s) |->
            IF MatchAt(s, i, pat) THEN by
            ELSE IF \E j \in (i - Len(pat) + 1)..(i - 1) : MatchAt(s, j, pat)
                 THEN <<>>
                 ELSE <<s[i]>>],
        1, Len(s))

\* the regex anchor $ at position p (the position after the match): the end
\* of the string, or just before a final newline
Dollar(s, p) == p = Len(s) + 1 \/ (p = Len(s) /\ s[p] = "\n")

\* unidecode.unidecode, one character: ASCII is kept, a letter with a
\* diacritic is folded to its base letter
Unidecode1(c) == IF c = "e_acute" THEN <<"e">> ELSE <<c>>

unidecode(s) == Cat([i \in 1..Len(s) |-> Unidecode1(s[i])], 1, Len(s))

(***************************************************************************)
(* sanitize (title.py lines 41-68).                                        *)
(***************************************************************************)
\* re.sub(r'\.pdf(\.pdf)*$', '', s): the leftmost position from which the
\* string is a run of ".pdf" up to the anchor $
PdfRun(s, i) ==
    /\ MatchAt(s, i, <<".","p","d","f">>)
    /\ \E n \in 1..((Len(s) - i + 1) \div 4) :
          /\ \A k \in 0..(n - 1) : MatchAt(s, i + 4 * k, <<".","p","d","f">>)
          /\ Dollar(s, i + 4 * n)

StripPdf(s) ==
    LET at == {i \in 1..Len(s) : PdfRun(s, i)}
    IN  IF at = {} THEN s
        ELSE LET i == CHOOSE k \in at : \A m \in at : k <= m
                 n == CHOOSE m \in 1..Len(s) :
                        /\ \A k \in 0..(m - 1) : MatchAt(s, i + 4 * k, <<".","p","d","f">>)
                        /\ Dollar(s, i + 4 * m)
                        /\ ~MatchAt(s, i + 4 * m, <<".","p","d","f">>)
             IN  Slice(s, 1, i - 1) \o Slice(s, i + 4 * n, Len(s))

\* re.sub(r'[ \t][ \t]*', ' ', s): the first blank of a run becomes a
\* space and the other blanks of the run go
CollapseBlanks(s) ==
    Cat([i \in 1..Len(s) |->
            IF s[i] \in {" ", "\t"}
            THEN IF i > 1 /\ s[i - 1] \in {" ", "\t"} THEN <<>> ELSE <<" ">>
            ELSE <<s[i]>>],
        1, Len(s))

\* valid_chars = "-_.() %s%s" % (string.ascii_letters, string.digits)
valid_chars == {"-", "_", ".", "(", ")", " "} \cup ascii_letters \cup digits

\* a faulty variant of sanitize: the substitution of ": " is left out
sanitize_NoColon(filename) ==
    LET words == Split(filename, " ")
        f1 == Join(Slice(words, 1, Min(MAX_WORDS, Len(words))), <<" ">>)
        f2 == IF Len(f1) > MAX_CHARS THEN Slice(f1, 1, MAX_CHARS) ELSE f1
        f4 == SubChars(unidecode(f2), {","}, <<" ">>)
    IN  Filter(CollapseBlanks(StripPdf(f4)), valid_chars)

sanitize(filename) ==
    LET words == Split(filename, " ")
        f1 == Join(Slice(words, 1, Min(MAX_WORDS, Len(words))), <<" ">>)
        f2 == IF Len(f1) > MAX_CHARS THEN Slice(f1, 1, MAX_CHARS) ELSE f1
        f3 == unidecode(f2)
        f4 == SubChars(f3, {","}, <<" ">>)
        f5 == SubLiteral(f4, <<":"," ">>, <<" ","-"," ">>)
        f6 == StripPdf(f5)
        f7 == CollapseBlanks(f6)
    IN  Filter(f7, valid_chars)

(***************************************************************************)
(* junk_line (title.py lines 87-104).                                      *)
(***************************************************************************)
AllIn(s, i, j, chars) == \A k \in i..j : s[k] \in chars

\* ^[0-9 \t-]+(abstract|introduction)?\s+$
PlaceholderNumbered(t) ==
    \E a \in 1..Len(t) :
        /\ AllIn(t, 1, a, digits \cup {" ", "\t", "-"})
        /\ \E w \in {<<>>, <<"a","b","s","t","r","a","c","t">>, <<"i","n","t","r","o","d","u","c","t","i","o","n">>} :
              /\ MatchAt(t, a + 1, w)
              /\ \E e \in (a + Len(w) + 1)..Len(t) :
                    /\ AllIn(t, a + Len(w) + 1, e, Whitespace)
                    /\ Dollar(t, e + 1)

\* ^(abstract|unknown|title|untitled):?$
PlaceholderWord(t) ==
    \E w \in {<<"a","b","s","t","r","a","c","t">>, <<"u","n","k","n","o","w","n">>, <<"t","i","t","l","e">>, <<"u","n","t","i","t","l","e","d">>} :
        /\ MatchAt(t, 1, w)
        /\ \/ Dollar(t, Len(w) + 1)
           \/ (MatchAt(t, Len(w) + 1, <<":">>) /\ Dollar(t, Len(w) + 2))

\* the words, in order and separated by \s+, occur in s from position i
RECURSIVE MatchWords(_, _, _)
MatchWords(s, i, ws) ==
    /\ MatchAt(s, i, Head(ws))
    /\ \/ Len(ws) = 1
       \/ \E j \in (i + Len(Head(ws)) + 1)..Len(s) :
             /\ AllIn(s, i + Len(Head(ws)), j - 1, Whitespace)
             /\ MatchWords(s, j, Tail(ws))

SearchWords(s, ws) == \E i \in 1..Len(s) : MatchWords(s, i, ws)

\* (integrated|international).*conference
SearchConference(s) ==
    \E w \in {<<"i","n","t","e","g","r","a","t","e","d">>, <<"i","n","t","e","r","n","a","t","i","o","n","a","l">>} :
        \E i \in 1..Len(s) : \E j \in (i + Len(w))..Len(s) :
            /\ MatchAt(s, i, w)
            /\ MatchAt(s, j, <<"c","o","n","f","e","r","e","n","c","e">>)
            /\ \A k \in (i + Len(w))..(j - 1) : s[k] # "\n"

CopyrightInfo(s) ==
    \/ SearchWords(s, <<<<"p","a","p","e","r">>, <<"t","i","t","l","e">>>>)
    \/ SearchWords(s, <<<<"t","e","c","h","n","i","c","a","l">>, <<"r","e","p","o","r","t">>>>)
    \/ SearchWords(s, <<<<"p","r","o","c","e","e","d","i","n","g","s">>>>)
    \/ SearchWords(s, <<<<"p","r","e","p","r","i","n","t">>>>)
    \/ SearchWords(s, <<<<"t","o">>, <<"a","p","p","e","a","r">>>>)
    \/ SearchWords(s, <<<<"s","u","b","m","i","s","s","i","o","n">>>>)
    \/ SearchConference(s)
    \/ SearchWords(s, <<<<"t","r","a","n","s","a","c","t","i","o","n","s">>, <<"o","n">>>>)
    \/ SearchWords(s, <<<<"s","y","m","p","o","s","i","u","m">>, <<"o","n">>>>)
    \/ SearchWords(s, <<<<"d","o","w","n","l","o","a","d","e","d">>, <<"f","r","o","m">>, <<"h","t","t","p">>>>)

junk_line(line) ==
    LET too_small == Len(Strip(line)) < MIN_CHARS
        is_placeholder_text ==
            \/ PlaceholderNumbered(Lower(Strip(line)))
            \/ PlaceholderWord(Lower(Strip(line)))
        is_copyright_info == CopyrightInfo(Lower(line))
        ascii_length == Len(Filter(Strip(line), ascii_letters))
        chars_length ==
            Len(Filter(Strip(line), Range(Strip(line)) \ {" ", "\t", "\n"}))
        \* ascii_length < chars_length / 2, a true division
        is_serial_number == 2 * ascii_length < chars_length
    IN  too_small \/ is_placeholder_text \/ is_copyright_info \/ is_serial_number

\* empty_str (title.py lines 107-108)
empty_str(s) == Len(Strip(s)) = 0

(***************************************************************************)
(* os.path.splitext and os.path.basename, POSIX.                           *)
(***************************************************************************)
LastIndex(s, c) ==
    LET at == {i \in 1..Len(s) : s[i] = c}
    IN  IF at = {} THEN 0 ELSE CHOOSE i \in at : \A k \in at : i >= k

\* (root, ext): ext starts at the last dot of the last path component,
\* unless only dots precede that dot in the component
splitext(p) ==
    LET sepIndex == LastIndex(p, "/")
        dotIndex == LastIndex(p, ".")
    IN  IF /\ dotIndex > sepIndex
           /\ \E k \in (sepIndex + 1)..(dotIndex - 1) : p[k] # "."
        THEN <<Slice(p, 1, dotIndex - 1), Slice(p, dotIndex, Len(p))>>
        ELSE <<p, <<>>>>

basename(p) == Slice(p, LastIndex(p, "/") + 1, Len(p))

\* a faulty variant of valid_title: the extension test is left out
valid_title_NoExtension(title) == ~empty_str(title) /\ ~junk_line(title)

\* valid_title (title.py lines 355-356)
valid_title(title) ==
    /\ ~empty_str(title)
    /\ ~junk_line(title)
    /\ empty_str(splitext(title)[2])

(***************************************************************************)
(* The Largest-Text Tracker (title.py lines 111-139).                      *)
(***************************************************************************)
\* is_close(a, b): abs(a-b) <= TOLERANCE * max(abs(a), abs(b)).  With d and m
\* integers, d <= m / 10^6 is d <= m \div 10^6.
is_close(a, b) == Abs(a - b) <= Max(Abs(a), Abs(b)) \div TOLERANCE_INV

\* re.sub(r'\n$', ' ', line): $ is the end of the string or the place before a
\* final newline, so the last newline and one right before it are replaced
SubFinalNewline(line) ==
    LET n == Len(line)
    IN  IF n >= 1 /\ line[n] = "\n"
        THEN IF n >= 2 /\ line[n - 1] = "\n"
             THEN Slice(line, 1, n - 2) \o <<" ", " ">>
             ELSE Slice(line, 1, n - 1) \o <<" ">>
        ELSE line

\* the initial tracker state (title.py lines 263-267)
InitialLargestText == [contents |-> <<>>, y0 |-> 0, size |-> 0]

\* a faulty variant of update_largest_text: a size that differs by more than
\* TOLERANCE in either direction replaces the state
update_largest_text_AnyDifference(line, y0, size, largest_text) ==
    IF size = largest_text.size /\ largest_text.size = 0
          /\ y0 - largest_text.y0 < -TOLERANCE
    THEN largest_text
    ELSE IF Abs(size - largest_text.size) > TOLERANCE
         THEN [contents |-> SubFinalNewline(line), y0 |-> y0, size |-> size]
         ELSE IF is_close(size, largest_text.size)
              THEN [largest_text EXCEPT
                       !.contents = @ \o SubFinalNewline(line), !.y0 = y0]
              ELSE largest_text

\* a faulty variant of update_largest_text: any larger size replaces the
\* state, TOLERANCE is not applied
update_largest_text_NoTolerance(line, y0, size, largest_text) ==
    IF size = largest_text.size /\ largest_text.size = 0
          /\ y0 - largest_text.y0 < -TOLERANCE
    THEN largest_text
    ELSE IF size > largest_text.size
         THEN [contents |-> SubFinalNewline(line), y0 |-> y0, size |-> size]
         ELSE IF is_close(size, largest_text.size)
              THEN [largest_text EXCEPT
                       !.contents = @ \o SubFinalNewline(line), !.y0 = y0]
              ELSE largest_text

update_largest_text(line, y0, size, largest_text) ==
    IF size = largest_text.size /\ largest_text.size = 0
          /\ y0 - largest_text.y0 < -TOLERANCE
    THEN largest_text
    ELSE IF size - largest_text.size > TOLERANCE
         THEN [contents |-> SubFinalNewline(line), y0 |-> y0, size |-> size]
         ELSE IF is_close(size, largest_text.size)
              THEN [largest_text EXCEPT
                       !.contents = @ \o SubFinalNewline(line), !.y0 = y0]
              ELSE largest_text

(***************************************************************************)
(* The Grouped-Text Extractor (title.py lines 142-161).  A text block is a *)
(* sequence of children; a child is a line (kind "line", with its own      *)
(* children in chars), a glyph (kind "char") or another element ("anno").  *)
(***************************************************************************)
\* LTTextContainer.get_text(): the texts of the children, concatenated
RECURSIVE get_text(_)
get_text(obj) ==
    IF obj.kind = "char" \/ obj.kind = "anno" THEN obj.text
    ELSE Cat([i \in 1..Len(obj.chars) |-> get_text(obj.chars[i])],
             1, Len(obj.chars))

\* the inner loop over a line: the first glyph at an index j > 1 (0-based)
\* updates the tracker, and the loop breaks
ExtractLine(child, largest_text) ==
    LET at == {j \in 1..Len(child.chars) :
                  j - 1 > 1 /\ child.chars[j].kind = "char"}
    IN  IF at = {} THEN largest_text
        ELSE LET j == CHOOSE k \in at : \A m \in at : k <= m
             IN  update_largest_text(get_text(child), child.chars[j].y0,
                                     child.chars[j].size, largest_text)

RECURSIVE ExtractFrom(_, _, _)
ExtractFrom(obj, i, largest_text) ==
    IF i > Len(obj.chars) THEN largest_text
    ELSE LET child == obj.chars[i]
         IN  IF child.kind = "line"
             THEN ExtractFrom(obj, i + 1, ExtractLine(child, largest_text))
             ELSE IF i - 1 > 1 /\ child.kind = "char"
                  THEN update_largest_text(get_text(obj), child.y0, child.size,
                                           largest_text)
                  ELSE ExtractFrom(obj, i + 1, largest_text)

extract_largest_text(obj, largest_text) == ExtractFrom(obj, 1, largest_text)

(***************************************************************************)
(* The Figure Reconstructor (title.py lines 164-249).  x-coordinates and   *)
(* distances are in units of 0.01.                                         *)
(***************************************************************************)
\* the locals of extract_figure_text before the loop (lines 170-176)
FigureStart(largest_text) ==
    [text |-> <<>>, line |-> <<>>, y0 |-> 0, size |-> 0, char_distance |-> 0,
     char_previous_x1 |-> 0, state |-> INIT_X, largest_text |-> largest_text]

\* a new line was detected (lines 192-201)
FigureNewLine(f, child) ==
    [f EXCEPT !.largest_text = update_largest_text(f.line, f.y0, f.size, @),
              !.text = @ \o f.line \o <<"\n">>,
              !.line = child.text,
              !.y0 = child.y0,
              !.size = child.size,
              !.char_previous_x1 = child.x1,
              !.state = INIT_D]

\* a faulty variant of FigureCalibrate: char_distance is not raised to 0.1
FigureCalibrate_NoMinimum(f, child, char_current_distance) ==
    IF f.state = INIT_X
    THEN [f EXCEPT !.char_previous_x1 = child.x1, !.state = INIT_D]
    ELSE IF f.state = INIT_D
    THEN LET d1 == IF f.char_distance > 0
                      /\ 2 * char_current_distance < f.char_distance * 5
                   THEN char_current_distance ELSE f.char_distance
         IN  [f EXCEPT !.char_distance = d1, !.state = INSIDE_WORD]
    ELSE f

\* Initialization (lines 214-223): INIT_X records x1, INIT_D calibrates
FigureCalibrate(f, child, char_current_distance) ==
    IF f.state = INIT_X
    THEN [f EXCEPT !.char_previous_x1 = child.x1, !.state = INIT_D]
    ELSE IF f.state = INIT_D
    THEN LET d1 == IF f.char_distance > 0
                      /\ 2 * char_current_distance < f.char_distance * 5
                   THEN char_current_distance ELSE f.char_distance
             d2 == IF d1 < 10 THEN 10 ELSE d1
         IN  [f EXCEPT !.char_distance = d2, !.state = INSIDE_WORD]
    ELSE f

\* the space is inserted by the "x-position decreased" branch (line 225)
XDecreased(f, child) == f.state = INSIDE_WORD /\ child.x1 < f.char_previous_x1

\* a faulty variant of SpaceDetected: the factor 2.5 of the calibration
\* rules in the place of 8.5
SpaceDetected_Factor25(f, char_current_distance) ==
    f.state = INSIDE_WORD /\ 2 * char_current_distance > f.char_distance * 5

\* the space is inserted by the "space detected" branch (line 231):
\* char_current_distance > char_distance * 8.5
SpaceDetected(f, char_current_distance) ==
    f.state = INSIDE_WORD /\ 2 * char_current_distance > f.char_distance * 17

\* the word-boundary chain (lines 224-245)
FigureSpacing(f, child, char_current_distance) ==
    IF XDecreased(f, child)
    THEN [f EXCEPT !.line = @ \o <<" ">>, !.char_previous_x1 = child.x1,
                   !.state = INIT_D]
    ELSE IF SpaceDetected(f, char_current_distance)
    THEN [f EXCEPT !.line = @ \o <<" ">>, !.char_previous_x1 = child.x1]
    ELSE IF /\ f.state = INSIDE_WORD
            /\ char_current_distance > f.char_distance
            /\ 2 * char_current_distance < f.char_distance * 5
    THEN [f EXCEPT !.char_distance = char_current_distance,
                   !.char_previous_x1 = child.x1]
    ELSE [f EXCEPT !.char_previous_x1 = child.x1]

\* the glyph's own text (lines 246-248)
FigureAppend(f, child) ==
    IF ~empty_str(child.text) THEN [f EXCEPT !.line = @ \o child.text] ELSE f

\* one iteration of the loop (lines 177-248)
FigureChild(f, child) ==
    IF child.kind # "char" THEN f
    ELSE IF child.size # f.size THEN FigureNewLine(f, child)
    ELSE LET char_current_distance == Abs(child.x0 - f.char_previous_x1)
         IN  FigureAppend(
                 FigureSpacing(FigureCalibrate(f, child, char_current_distance),
                               child, char_current_distance),
                 child)

RECURSIVE FigureLoop(_, _)
FigureLoop(f, children) ==
    IF children = <<>> THEN f
    ELSE FigureLoop(FigureChild(f, Head(children)), Tail(children))

\* returns (largest_text, text) (line 249): the running line is not flushed
extract_figure_text(lt_obj, largest_text) ==
    LET f == FigureLoop(FigureStart(largest_text), lt_obj.chars)
    IN  <<f.largest_text, f.text>>

(***************************************************************************)
(* The Line-Window Selector (title.py lines 295-306).  Indices are the     *)
(* 1-based positions of the lines: Python's index plus one.                *)
(***************************************************************************)
title_start(lines) ==
    LET ok == {i \in 1..Len(lines) : ~empty_str(lines[i]) /\ ~junk_line(lines[i])}
    IN  IF ok = {} THEN 1 ELSE CHOOSE i \in ok : \A k \in ok : i <= k

\* a faulty variant of title_end: the window always ends after two lines
title_end_AlwaysTwo(lines, start) == start + 2

\* max_lines = 2
title_end(lines, start) ==
    LET blank == {i \in (start + 1)..Min(start + 2, Len(lines)) : empty_str(lines[i])}
    IN  IF blank = {} THEN start + 1 ELSE CHOOSE i \in blank : \A k \in blank : i <= k

\* ' '.join(line.strip() for line in lines[i:j]) (lines 316-318, 342-344)
LineWindow(lines) ==
    LET i == title_start(lines)
        j == title_end(lines, i)
        window == Slice(lines, i, Min(j - 1, Len(lines)))
    IN  Join([k \in 1..Len(window) |-> Strip(window[k])], <<" ">>)

\* re.sub(r'\.', '', text) and re.sub(r'[\t\n]', '', text)
\* (lines 322-326, 346-350)
StripDots(text) == SubChars(SubChars(text, {"."}, <<>>), {"\t", "\n"}, <<>>)

(***************************************************************************)
(* pdf_text (title.py lines 252-292): the scan of the first page.  A       *)
(* document is [readable, pages]; a page is a sequence of layout objects   *)
(* of kind "figure", "box" (LTTextBox), "line" (LTTextLine) or "other".    *)
(***************************************************************************)
\* re.sub(r'(\(cid:[0-9 \t-]*\))*', '', contents): the position after the
\* group "(cid:...)" that starts at position i, or 0.  A group holds no
\* "(" after its first character, so groups never overlap and each is removed.
CidEnd(s, i) ==
    IF ~MatchAt(s, i, <<"(","c","i","d",":">>) THEN 0
    ELSE LET stop == {k \in (i + 5)..Len(s) : s[k] \notin digits \cup {" ", "\t", "-"}}
         IN  IF stop = {} THEN 0
             ELSE LET e == CHOOSE k \in stop : \A m \in stop : k <= m
                  IN  IF s[e] = ")" THEN e ELSE 0

RemoveCid(s) ==
    LET open == {i \in 1..Len(s) : s[i] = "(" /\ CidEnd(s, i) > 0}
    IN  Cat([i \in 1..Len(s) |->
                IF \E j \in open : j <= i /\ i <= CidEnd(s, j) THEN <<>> ELSE <<s[i]>>],
            1, Len(s))

\* one layout object of the page (lines 271-285); acc is (largest_text, text)
ScanObject(lt_obj, acc) ==
    IF lt_obj.kind = "figure"
    THEN LET r == extract_figure_text(lt_obj, acc[1])
         IN  <<r[1], acc[2] \o r[2]>>
    ELSE IF lt_obj.kind \in {"box", "line"}
    THEN LET stripped_to_chars ==
                 Filter(Strip(get_text(lt_obj)),
                        Range(get_text(lt_obj)) \ {" ", "\t", "\n"})
         IN  IF Len(stripped_to_chars) > MAX_CHARS * 2 THEN acc
             ELSE <<extract_largest_text(lt_obj, acc[1]),
                    acc[2] \o get_text(lt_obj) \o <<"\n">>>>
    ELSE acc

RECURSIVE ScanPage(_, _)
ScanPage(layout, acc) ==
    IF layout = <<>> THEN acc
    ELSE ScanPage(Tail(layout), ScanObject(Head(layout), acc))

\* the result for a readable document with at least one page: only the
\* first page is parsed
pdf_text(doc) ==
    LET r == ScanPage(doc.pages[1], <<InitialLargestText, <<>>>>)
    IN  <<[r[1] EXCEPT !.contents = RemoveCid(@)], r[2]>>

(***************************************************************************)
(* The title sources.  A source's result is [raised, value]: raised when   *)
(* the call ends in an exception.                                          *)
(***************************************************************************)
Raised == [raised |-> TRUE, value |-> <<>>]
Returned(v) == [raised |-> FALSE, value |-> v]

\* text_title (title.py lines 309-328).  open() raises for an unreadable
\* file; pdf_text returns None for a document without pages, and unpacking
\* None raises.
text_title(doc) ==
    IF ~doc.readable \/ doc.pages = <<>> THEN Raised
    ELSE LET r == pdf_text(doc)
             text == IF empty_str(r[1].contents)
                     THEN LineWindow(Split(Strip(r[2]), "\n"))
                     ELSE Strip(r[1].contents)
         IN  Returned(StripDots(text))

\* pdftotext_title (title.py lines 331-352).  tool is what the subprocess
\* gives: its exit status (never read), its standard output, and whether
\* the interpreter hands the output over as bytes (Python 3) or as str
\* (Python 2): bytes.split('\n') raises TypeError.
pdftotext_title(tool) ==
    IF tool.bytes THEN Raised
    ELSE Returned(StripDots(LineWindow(Split(Strip(tool.out), "\n"))))

\* meta_title (title.py lines 71-84).  docinfo is "None" or a sequence of
\* records [attrs, keys, value]: attrs are the attribute names hasattr()
\* finds on the record object, keys the keys of its mapping, value the
\* title stored under each of those keys.  Subscripting with a missing key
\* raises KeyError.
RECURSIVE MetaScan(_)
MetaScan(docinfo) ==
    IF docinfo = <<>> THEN Returned([bytes |-> FALSE, s |-> <<>>])
    ELSE LET meta == Head(docinfo)
             Get(k) == IF k \in meta.keys THEN Returned(meta.value) ELSE Raised
         IN  IF "title" \in meta.attrs THEN Get("title")
             ELSE IF "Title" \in meta.attrs THEN Get("Title")
             ELSE IF "TITLE" \in meta.attrs THEN Get("TITLE")
             ELSE MetaScan(Tail(docinfo))

meta_title(doc) ==
    IF ~doc.readable THEN Raised
    ELSE IF doc.docinfo = "None" THEN Returned([bytes |-> FALSE, s |-> <<>>])
    ELSE MetaScan(doc.docinfo)

\* valid_title applied to a metadata value: on a bytes value, strip() and
\* len() work and the str regex of junk_line raises TypeError
MetaValid(v) ==
    IF v.bytes
    THEN IF empty_str(v.s) THEN Returned(FALSE) ELSE Raised
    ELSE Returned(valid_title(v.s))

(***************************************************************************)
(* State.                                                                  *)
(***************************************************************************)
VARIABLES
    \* pdf_title and the command line
    file,           \* the input: [name, doc, tool, underscore]
    pc,             \* where pdf_title (and then the main loop) stands
    title,          \* the local variable title
    source,         \* the source whose candidate pdf_title returned
    invoked,        \* history: the sources consulted so far, in order
    \* a scan of update_largest_text calls
    largest_text,   \* the tracker state
    call,           \* history: the arguments of the latest call
    before,         \* history: the tracker state before the latest call
    n_updates,      \* the number of calls made
    \* extract_figure_text and its caller
    fig,            \* the locals of extract_figure_text
    fig_pc,         \* "loop", or "returned" once pdf_text has the result
    seen,           \* history: the children processed so far
    prev,           \* history: the locals before the latest child
    fed,            \* history: the calls of update_largest_text, in order
    page_text,      \* the local variable text of pdf_text
    \* a scan whose calls are all recorded
    calls,          \* history: the arguments of every call, in order
    \* sanitize, junk_line and the line window applied to a text
    arg,            \* the text the function is applied to
    text_pc,        \* "typing", or the function applied last
    out,            \* the result of the function
    out2,           \* the result of sanitize applied to out
    \* the loop of pdf_text over the layout objects of the first page
    scan,           \* (largest_text, text) of pdf_text
    scan_prev,      \* history: scan before the latest layout object
    scanned,        \* history: the layout objects processed so far
    scan_pc         \* "loop", or "returned"

title_vars == <<file, pc, title, source, invoked>>
tracker_vars == <<largest_text, call, before, n_updates>>
figure_vars == <<fig, fig_pc, seen, prev, fed, page_text>>
text_vars == <<arg, text_pc, out, out2>>
scan_vars == <<scan, scan_prev, scanned, scan_pc>>
rest_vars == <<calls, text_vars, scan_vars>>
vars == <<file, pc, title, source, invoked, largest_text, call, before,
          n_updates, fig, fig_pc, seen, prev, fed, page_text, calls,
          arg, text_pc, out, out2, scan, scan_prev, scanned, scan_pc>>

\* the parts of the state a specification does not use
TitleIdle ==
    /\ file = [name |-> <<>>] /\ pc = "idle" /\ title = <<>>
    /\ source = "" /\ invoked = <<>>
TrackerIdle ==
    /\ largest_text = InitialLargestText /\ call = <<>>
    /\ before = InitialLargestText /\ n_updates = 0
FigureIdle ==
    /\ fig = FigureStart(InitialLargestText) /\ fig_pc = "idle" /\ seen = <<>>
    /\ prev = FigureStart(InitialLargestText) /\ fed = <<>> /\ page_text = <<>>
RestIdle ==
    /\ calls = <<>>
    /\ arg = <<>> /\ text_pc = "idle" /\ out = <<>> /\ out2 = <<>>
    /\ scan = <<InitialLargestText, <<>>>> /\ scan_prev = <<InitialLargestText, <<>>>>
    /\ scanned = <<>> /\ scan_pc = "idle"

(***************************************************************************)
(* Input documents.  Sizes and y0 are in units of 5e-7, so that            *)
(* TOLERANCE = 1e-06 is 2 units and 700 points still fit an integer.       *)
(***************************************************************************)
Pt(n) == n * 2000000

Glyph(c, x0, x1, y0, size) ==
    [kind |-> "char", text |-> <<c>>, x0 |-> x0, x1 |-> x1, y0 |-> y0, size |-> size]
Anno(c) == [kind |-> "anno", text |-> <<c>>]

\* an LTTextLine: one LTChar per character and an LTAnno for the newline
TextLine(s, y0, size) ==
    [kind |-> "line",
     chars |-> [i \in 1..Len(s) |-> Glyph(s[i], 0, 0, y0, size)] \o <<Anno("\n")>>]
TextBox(lines) == [kind |-> "box", chars |-> lines]

\* the glyphs of a figure: a glyph is 0.9 wide and each character slot 1.0,
\* and a space of the text has no glyph
FigureRun(s, y0, size) ==
    LET at == {i \in 1..Len(s) : s[i] # " "}
        G(i) == Glyph(s[i], 100 * (i - 1), 100 * (i - 1) + 90, y0, size)
        RECURSIVE Build(_)
        Build(i) == IF i > Len(s) THEN <<>>
                    ELSE (IF i \in at THEN <<G(i)>> ELSE <<>>) \o Build(i + 1)
    IN  Build(1)
Figure(glyphs) == [kind |-> "figure", chars |-> glyphs]

PageEfficient ==
    <<TextBox(<<TextLine(<<"E","f","f","i","c","i","e","n","t"," ","P","a","r","s","i","n","g",":"," ","A"," ","S","u","r","v","e","y">>, Pt(700), Pt(18))>>),
      TextBox(<<TextLine(<<"W","e"," ","s","u","r","v","e","y"," ","p","a","r","s","e","r","s",".">>, Pt(650), Pt(10))>>)>>
PageFigure ==
    <<Figure(FigureRun(<<"D","e","e","p"," ","N","e","t","s">>, Pt(700), Pt(20))
             \o FigureRun(<<"b","y"," ","A","."," ","A","u","t","h","o","r">>, Pt(650), Pt(10)))>>
PageNoSize ==
    <<TextBox(<<TextLine(<<"F","i","r","s","t"," ","L","i","n","e"," ","W","i","n","s">>, Pt(700), 0),
                TextLine(<<"s","e","c","o","n","d"," ","l","i","n","e">>, Pt(680), 0)>>)>>
PageBlankHeading ==
    <<TextBox(<<TextLine(<<" "," "," ">>, Pt(700), Pt(30))>>),
      TextBox(<<TextLine(<<"R","e","a","l"," ","T","i","t","l","e"," ","H","e","r","e">>, Pt(650), Pt(10)),
                TextLine(<<"S","e","c","o","n","d"," ","p","a","r","t">>, Pt(640), Pt(10))>>),
      TextBox(<<TextLine(<<"b","o","d","y">>, Pt(600), Pt(10))>>)>>
PageJunk ==
    <<TextBox(<<TextLine(<<"P","r","o","c","e","e","d","i","n","g","s"," ","o","f"," ","t","h","e"," ","C","o","n","f","e","r","e","n","c","e">>, Pt(700), Pt(14))>>)>>
PageEmpty == <<>>

Pages == {<<PageEfficient>>, <<PageFigure>>, <<PageNoSize>>, <<PageBlankHeading>>,
          <<PageJunk>>, <<PageEmpty>>, <<>>}

Str(s) == [bytes |-> FALSE, s |-> s]
Bytes(s) == [bytes |-> TRUE, s |-> s]
Record(attrs, keys, value) == [attrs |-> attrs, keys |-> keys, value |-> value]

\* a plain dict has none of the three names as an attribute
DocInfos ==
    {"None",
     <<>>,
     <<Record({}, {"Title"}, Str(<<"A"," ","F","a","s","t"," ","A","l","g","o","r","i","t","h","m"," ","f","o","r"," ","T","i","t","l","e"," ","E","x","t","r","a","c","t","i","o","n">>))>>,
     <<Record({}, {"Author"}, Str(<<"A","."," ","A","u","t","h","o","r">>))>>,
     <<Record({"Title"}, {"Title"}, Str(<<"A"," ","F","a","s","t"," ","A","l","g","o","r","i","t","h","m"," ","f","o","r"," ","T","i","t","l","e"," ","E","x","t","r","a","c","t","i","o","n">>))>>,
     <<Record({"title"}, {"Title"}, Str(<<"A"," ","F","a","s","t"," ","A","l","g","o","r","i","t","h","m"," ","f","o","r"," ","T","i","t","l","e"," ","E","x","t","r","a","c","t","i","o","n">>))>>,
     <<Record({}, {"Author"}, Str(<<"A","."," ","A","u","t","h","o","r">>)),
       Record({"TITLE"}, {"TITLE"}, Str(<<"D","r","."," ","S","m","i","t","h"," ","o","n"," ","P","a","r","s","i","n","g">>))>>,
     <<Record({"title"}, {"title"}, Bytes(<<"A"," ","F","a","s","t"," ","A","l","g","o","r","i","t","h","m"," ","f","o","r"," ","T","i","t","l","e"," ","E","x","t","r","a","c","t","i","o","n">>))>>,
     <<Record({"title"}, {"title"}, Str(<<"u","n","t","i","t","l","e","d">>))>>}

Docs ==
    {[readable |-> FALSE, docinfo |-> "None", pages |-> <<>>]}
    \cup [readable : {TRUE}, docinfo : DocInfos, pages : Pages]

ToolOuts == {<<>>, <<"T","i","t","l","e"," ","F","r","o","m"," ","T","o","o","l","\n","a","n","d"," ","m","o","r","e","\n","\n","b","o","d","y"," ","t","e","x","t","\n">>, <<"1","2","3","4","5","\n">>}
Tools == [exit : {0, 1}, out : ToolOuts, bytes : BOOLEAN]

FileNames == {<<"p","a","p","e","r","s","/","m","y"," ","p","a","p","e","r",".","v","2",".","p","d","f">>, <<"d","i","r","/">>, <<"s","c","a","n",":"," ","0","7",".","p","d","f">>}

Files == [name : FileNames, doc : Docs, tool : Tools, underscore : BOOLEAN]

(***************************************************************************)
(* pdf_title (title.py lines 359-380) and the main loop (lines 417-437).   *)
(***************************************************************************)
Order == <<"Metadata", "LayoutText", "ExternalTool", "Filename">>

Return(src, t) ==
    /\ title' = t
    /\ source' = src
    /\ pc' = "returned"

Advance(next) ==
    /\ pc' = next
    /\ UNCHANGED <<title, source>>

\* lines 362-367: try meta_title and valid_title, any exception is logged
Metadata ==
    /\ pc = "Metadata"
    /\ invoked' = Append(invoked, "Metadata")
    /\ LET r == meta_title(file.doc)
       IN  IF ~r.raised /\ MetaValid(r.value) = Returned(TRUE)
           THEN Return("Metadata", r.value.s)
           ELSE Advance("LayoutText")
    /\ UNCHANGED <<file, tracker_vars, figure_vars, rest_vars>>

\* a faulty variant of LayoutText: a valid candidate is not returned, the
\* next source is consulted all the same
LayoutText_FallsThrough ==
    /\ pc = "LayoutText"
    /\ invoked' = Append(invoked, "LayoutText")
    /\ Advance("ExternalTool")
    /\ UNCHANGED <<file, tracker_vars, figure_vars, rest_vars>>

\* lines 369-374: try text_title and valid_title, any exception is logged
LayoutText ==
    /\ pc = "LayoutText"
    /\ invoked' = Append(invoked, "LayoutText")
    /\ LET r == text_title(file.doc)
       IN  IF ~r.raised /\ valid_title(r.value)
           THEN Return("LayoutText", r.value)
           ELSE Advance("ExternalTool")
    /\ UNCHANGED <<file, tracker_vars, figure_vars, rest_vars>>

\* lines 376-378: pdftotext_title is called outside any try
ExternalTool ==
    /\ pc = "ExternalTool"
    /\ invoked' = Append(invoked, "ExternalTool")
    /\ LET r == pdftotext_title(file.tool)
       IN  IF r.raised THEN Advance("raised")
           ELSE IF valid_title(r.value) THEN Return("ExternalTool", r.value)
           ELSE Advance("Filename")
    /\ UNCHANGED <<file, tracker_vars, figure_vars, rest_vars>>

\* line 380
Filename ==
    /\ pc = "Filename"
    /\ invoked' = Append(invoked, "Filename")
    /\ Return("Filename", basename(splitext(file.name)[1]))
    /\ UNCHANGED <<file, tracker_vars, figure_vars, rest_vars>>

\* lines 418-421: title = sanitize(' '.join(title.split())), then the
\* --underscore option
Main ==
    /\ pc = "returned"
    /\ title' = LET t == sanitize(Join(SplitWs(title), <<" ">>))
                IN  IF file.underscore THEN SubChars(t, {" "}, <<"_">>) ELSE t
    /\ pc' = "written"
    /\ UNCHANGED <<file, source, invoked, tracker_vars, figure_vars, rest_vars>>

Init ==
    /\ file \in Files
    /\ pc = "Metadata"
    /\ title = <<>>
    /\ source = ""
    /\ invoked = <<>>
    /\ TrackerIdle
    /\ FigureIdle
    /\ RestIdle

Next ==
    \/ Metadata
    \/ LayoutText
    \/ ExternalTool
    \/ Filename
    \/ Main

Spec == Init /\ [][Next]_vars

(***************************************************************************)
(* A scan: update_largest_text called again and again from the initial     *)
(* tracker state (title.py lines 263-267 and 115-139).                     *)
(***************************************************************************)
MaxUpdates == 4

\* the lines of a scan, each with its y0
ScanLines ==
    {[text |-> <<"N","e","u","r","a","l"," ">>, y0 |-> Pt(700)],
     [text |-> <<"N","e","t","w","o","r","k","s">>, y0 |-> Pt(698)],
     [text |-> <<"o","f","\n">>, y0 |-> Pt(700)],
     [text |-> <<"D","e","p","t","h">>, y0 |-> Pt(698) + 1]}

\* 0, 5e-7, 0.25, 0.2500005, 12, 12.0000005 and 12.000002
ScanSizes == {0, 1, 500000, 500001, Pt(12), Pt(12) + 1, Pt(12) + 4}

Update ==
    /\ n_updates < MaxUpdates
    /\ \E l \in ScanLines, size \in ScanSizes :
          /\ largest_text' = update_largest_text(l.text, l.y0, size, largest_text)
          /\ call' = [line |-> l.text, y0 |-> l.y0, size |-> size]
    /\ before' = largest_text
    /\ n_updates' = n_updates + 1
    /\ UNCHANGED <<title_vars, figure_vars, rest_vars>>

TrackerInit ==
    /\ largest_text = InitialLargestText
    /\ call = <<>>
    /\ before = InitialLargestText
    /\ n_updates = 0
    /\ TitleIdle
    /\ FigureIdle
    /\ RestIdle

TrackerNext == Update

SpecTracker == TrackerInit /\ [][TrackerNext]_vars

(***************************************************************************)
(* extract_figure_text run child by child, and the return to pdf_text      *)
(* (title.py lines 164-249 and 273-276).                                   *)
(***************************************************************************)
MaxGlyphs == 5

\* the distance of a glyph's x0 from the x1 of the glyph before it, in units
\* of 0.01; a glyph is 0.5 wide, so the last one steps back to the left
FigureGaps == {5, 10, 20, 120, -300}
FigureSizes == {0, Pt(12)}

\* the children the figure may hold next: a glyph "a" at one of the gaps, a
\* space glyph right after the last glyph, or an LTAnno
Children(f) ==
    {Glyph("a", f.char_previous_x1 + g, f.char_previous_x1 + g + 50,
           IF s = 0 THEN Pt(650) ELSE Pt(700), s) :
        g \in FigureGaps, s \in FigureSizes}
    \cup {Glyph(" ", f.char_previous_x1 + 10, f.char_previous_x1 + 60,
                IF s = 0 THEN Pt(650) ELSE Pt(700), s) : s \in FigureSizes}
    \cup {Anno(" ")}

\* one iteration of the loop over lt_obj
FigureGlyph ==
    /\ fig_pc = "loop"
    /\ Len(seen) < MaxGlyphs
    /\ \E child \in Children(fig) :
          /\ fig' = FigureChild(fig, child)
          /\ seen' = Append(seen, child)
          /\ fed' = IF child.kind = "char" /\ child.size # fig.size
                    THEN Append(fed, <<fig.line, fig.y0, fig.size>>)
                    ELSE fed
    /\ prev' = fig
    /\ UNCHANGED <<fig_pc, page_text, largest_text, call, before, n_updates,
                   title_vars, rest_vars>>

\* the loop ends: (largest_text, figure_text) = extract_figure_text(...),
\* text += figure_text (lines 274-276)
FigureReturn ==
    /\ fig_pc = "loop"
    /\ fig_pc' = "returned"
    /\ largest_text' = fig.largest_text
    /\ page_text' = page_text \o fig.text
    /\ UNCHANGED <<fig, seen, prev, fed, call, before, n_updates, title_vars, rest_vars>>

FigureInit ==
    /\ fig = FigureStart(InitialLargestText)
    /\ fig_pc = "loop"
    /\ seen = <<>>
    /\ prev = FigureStart(InitialLargestText)
    /\ fed = <<>>
    /\ page_text = <<>>
    /\ TrackerIdle
    /\ TitleIdle
    /\ RestIdle

FigureNext == FigureGlyph \/ FigureReturn

SpecFigure == FigureInit /\ [][FigureNext]_vars


(***************************************************************************)
(* sanitize applied to a file name, and applied again to its own result    *)
(* (title.py lines 41-68).  The name is typed piece by piece, and may then *)
(* be repeated or padded to reach the limits MAX_WORDS and MAX_CHARS.      *)
(***************************************************************************)
MaxLen == 5

NamePieces == {<<"a">>, <<" ">>, <<",">>, <<":"," ">>, <<".","p","d","f">>, <<"e_acute">>, <<"\t">>, <<"!">>}

\* s * n of Python
Repeated(s, n) == [i \in 1..(n * Len(s)) |-> s[((i - 1) % Len(s)) + 1]]

TypeName ==
    /\ text_pc = "typing"
    /\ \E p \in NamePieces :
          /\ Len(arg) + Len(p) <= MaxLen
          /\ arg' = arg \o p
    /\ UNCHANGED <<text_pc, out, out2, calls, scan_vars, title_vars,
                   tracker_vars, figure_vars>>

\* a name of more than MAX_WORDS parts
RepeatName ==
    /\ text_pc = "typing"
    /\ arg # <<>>
    /\ arg' = Repeated(arg, MAX_WORDS + 1)
    /\ text_pc' = "typed"
    /\ UNCHANGED <<out, out2, calls, scan_vars, title_vars, tracker_vars,
                   figure_vars>>

\* a name that ends in one word of MAX_CHARS letters
PadName ==
    /\ text_pc = "typing"
    /\ arg' = arg \o Repeated(<<"a">>, MAX_CHARS)
    /\ text_pc' = "typed"
    /\ UNCHANGED <<out, out2, calls, scan_vars, title_vars, tracker_vars,
                   figure_vars>>

Sanitize ==
    /\ text_pc \in {"typing", "typed"}
    /\ out' = sanitize(arg)
    /\ text_pc' = "sanitize"
    /\ UNCHANGED <<arg, out2, calls, scan_vars, title_vars, tracker_vars,
                   figure_vars>>

Resanitize ==
    /\ text_pc = "sanitize"
    /\ out2' = sanitize(out)
    /\ text_pc' = "sanitize2"
    /\ UNCHANGED <<arg, out, calls, scan_vars, title_vars, tracker_vars,
                   figure_vars>>

TextInit ==
    /\ arg = <<>>
    /\ text_pc = "typing"
    /\ out = <<>>
    /\ out2 = <<>>
    /\ calls = <<>>
    /\ scan = <<InitialLargestText, <<>>>>
    /\ scan_prev = <<InitialLargestText, <<>>>>
    /\ scanned = <<>>
    /\ scan_pc = "idle"
    /\ TitleIdle
    /\ TrackerIdle
    /\ FigureIdle

SanitizeNext ==
    \/ TypeName
    \/ RepeatName
    \/ PadName
    \/ Sanitize
    \/ Resanitize

SpecSanitize == TextInit /\ [][SanitizeNext]_vars

(***************************************************************************)
(* junk_line applied to a line (title.py lines 87-104).  The line is a run *)
(* of digits, dashes and blanks, then at most one word.                    *)
(***************************************************************************)
LineChars == {"1", "2", "-", " ", "\t"}

LineWords == {<<"a","b","s","t","r","a","c","t">>, <<"i","n","t","r","o","d","u","c","t","i","o","n">>, <<"A","b","s","t","r","a","c","t">>, <<"I","n","t","r","o","d","u","c","t","i","o","n">>,
              <<"a","b","s","t","r","a","c","t",":">>, <<"U","N","T","I","T","L","E","D">>, <<"U","n","t","i","t","l","e","d",":">>, <<"t","i","t","l","e">>,
              <<"u","n","k","n","o","w","n">>, <<"T","i","t","l","e",":"," ">>, <<"a"," ","s","u","r","v","e","y">>, <<"u","n","t","i","t","l","e","d",":",":">>}

TypeLineChar ==
    /\ text_pc = "typing"
    /\ Len(arg) < MaxLen
    /\ \E c \in LineChars : arg' = Append(arg, c)
    /\ UNCHANGED <<text_pc, out, out2, calls, scan_vars, title_vars,
                   tracker_vars, figure_vars>>

TypeLineWord ==
    /\ text_pc = "typing"
    /\ \E w \in LineWords : arg' = arg \o w
    /\ text_pc' = "typed"
    /\ UNCHANGED <<out, out2, calls, scan_vars, title_vars, tracker_vars,
                   figure_vars>>

JunkLine ==
    /\ text_pc \in {"typing", "typed"}
    /\ out' = junk_line(arg)
    /\ text_pc' = "junk_line"
    /\ UNCHANGED <<arg, out2, calls, scan_vars, title_vars, tracker_vars,
                   figure_vars>>

JunkNext ==
    \/ TypeLineChar
    \/ TypeLineWord
    \/ JunkLine

SpecJunk == TextInit /\ [][JunkNext]_vars

(***************************************************************************)
(* The Line-Window Selector applied to a text as text_title applies it     *)
(* when the tracker is empty (title.py lines 314-318).  The text is typed  *)
(* line by line.                                                           *)
(***************************************************************************)
MaxLines == 5

TextLines == {<<>>, <<" "," ">>, <<"A","b","s","t","r","a","c","t">>, <<"A"," ","S","u","r","v","e","y"," ","o","f"," ","P","a","r","s","i","n","g">>,
              <<" ","S","e","c","o","n","d"," ","P","a","r","t"," ">>, <<"1","2","3","4","5">>}

NewlineCount(s) == Cardinality({i \in 1..Len(s) : s[i] = "\n"})

TypeTextLine ==
    /\ text_pc = "typing"
    /\ NewlineCount(arg) < MaxLines
    /\ \E l \in TextLines : arg' = arg \o l \o <<"\n">>
    /\ UNCHANGED <<text_pc, out, out2, calls, scan_vars, title_vars,
                   tracker_vars, figure_vars>>

\* lines = lines_joined.strip().split('\n'), and the window joined
SelectWindow ==
    /\ text_pc = "typing"
    /\ out' = LineWindow(Split(Strip(arg), "\n"))
    /\ text_pc' = "window"
    /\ UNCHANGED <<arg, out2, calls, scan_vars, title_vars, tracker_vars,
                   figure_vars>>

LinesNext ==
    \/ TypeTextLine
    \/ SelectWindow

SpecLines == TextInit /\ [][LinesNext]_vars

(***************************************************************************)
(* A scan whose calls are all recorded: update_largest_text called again   *)
(* and again from the initial tracker state (title.py lines 263-267 and    *)
(* 115-139), with sizes that are equal or well apart.                      *)
(***************************************************************************)
LoggedLines ==
    {[text |-> <<"N","e","u","r","a","l"," ">>, y0 |-> Pt(700)],
     [text |-> <<"N","e","t","w","o","r","k","s">>, y0 |-> Pt(698)],
     [text |-> <<"o","f","\n">>, y0 |-> Pt(650)]}

\* 5e-7, 10, 12 and 12.0000005
LoggedSizes == {1, Pt(10), Pt(12), Pt(12) + 1}

UpdateLogged ==
    /\ n_updates < MaxUpdates
    /\ \E l \in LoggedLines, size \in LoggedSizes :
          /\ largest_text' = update_largest_text(l.text, l.y0, size, largest_text)
          /\ call' = [line |-> l.text, y0 |-> l.y0, size |-> size]
          /\ calls' = Append(calls, [line |-> l.text, y0 |-> l.y0, size |-> size])
    /\ before' = largest_text
    /\ n_updates' = n_updates + 1
    /\ UNCHANGED <<title_vars, figure_vars, text_vars, scan_vars>>

LoggedNext == UpdateLogged

SpecLogged == TrackerInit /\ [][LoggedNext]_vars

(***************************************************************************)
(* The loop of pdf_text over the layout objects of the first page, object  *)
(* by object, and its return (title.py lines 262-292).                     *)
(***************************************************************************)
MaxObjects == 2

\* an LTTextLine whose glyphs have sizes of their own
SizedLine(s, y0, sizes) ==
    [kind |-> "line",
     chars |-> [i \in 1..Len(s) |-> Glyph(s[i], 0, 0, y0, sizes[i])] \o <<Anno("\n")>>]

\* a text block of n visible characters
Block(n) == TextBox(<<TextLine([i \in 1..n |-> "a"], Pt(600), Pt(10))>>)

BlockSizes == {2 * MAX_CHARS, 2 * MAX_CHARS + 1, 40 * MAX_WORDS, 40 * MAX_WORDS + 1}

\* lines of one, two, three and five glyphs; the last begins with a drop cap
HeadingLines ==
    {TextLine(<<"A">>, Pt(720), Pt(18)),
     TextLine(<<"H","i">>, Pt(700), Pt(18)),
     TextLine(<<"T","h","e">>, Pt(680), Pt(14)),
     SizedLine(<<"T","i","t","l","e">>, Pt(650), <<Pt(30), Pt(16), Pt(12), Pt(12), Pt(12)>>)}

ScanObjects ==
    {Block(n) : n \in BlockSizes}
    \cup HeadingLines
    \cup {TextBox(<<l>>) : l \in HeadingLines}
    \cup {TextBox(<<TextLine(<<"H","i">>, Pt(700), Pt(18)), TextLine(<<"T","h","e">>, Pt(680), Pt(14))>>)}
    \cup {Figure(FigureRun(<<"D","e","e","p"," ","N","e","t","s">>, Pt(700), Pt(20))
                 \o FigureRun(<<"b","y">>, Pt(650), Pt(10))),
          [kind |-> "other"]}

\* one iteration of "for lt_obj in layout" (lines 271-285)
ScanStep ==
    /\ scan_pc = "loop"
    /\ Len(scanned) < MaxObjects
    /\ \E lt_obj \in ScanObjects :
          /\ scan' = ScanObject(lt_obj, scan)
          /\ scanned' = Append(scanned, lt_obj)
    /\ scan_prev' = scan
    /\ UNCHANGED <<scan_pc, calls, text_vars, title_vars, tracker_vars, figure_vars>>

\* the loop ends: the CID text is removed and (largest_text, text) is
\* returned (lines 287-292)
ScanReturn ==
    /\ scan_pc = "loop"
    /\ scan' = <<[scan[1] EXCEPT !.contents = RemoveCid(@)], scan[2]>>
    /\ scan_pc' = "returned"
    /\ UNCHANGED <<scan_prev, scanned, calls, text_vars, title_vars,
                   tracker_vars, figure_vars>>

ScanInit ==
    /\ scan = <<InitialLargestText, <<>>>>
    /\ scan_prev = <<InitialLargestText, <<>>>>
    /\ scanned = <<>>
    /\ scan_pc = "loop"
    /\ calls = <<>>
    /\ arg = <<>> /\ text_pc = "idle" /\ out = <<>> /\ out2 = <<>>
    /\ TitleIdle
    /\ TrackerIdle
    /\ FigureIdle

ScanNext ==
    \/ ScanStep
    \/ ScanReturn

SpecScan == ScanInit /\ [][ScanNext]_vars
(***************************************************************************)
(* Properties of pdf_title and the command line, checked under Spec.       *)
(***************************************************************************)
\* what a source offers for the input file: whether its candidate is valid
\* (the call did not raise and valid_title accepted it) and the candidate
Offer(src) ==
    CASE src = "Metadata" ->
            LET r == meta_title(file.doc)
            IN  IF ~r.raised /\ MetaValid(r.value) = Returned(TRUE)
                THEN [valid |-> TRUE, value |-> r.value.s]
                ELSE [valid |-> FALSE, value |-> <<>>]
      [] src = "LayoutText" ->
            LET r == text_title(file.doc)
            IN  IF ~r.raised /\ valid_title(r.value)
                THEN [valid |-> TRUE, value |-> r.value]
                ELSE [valid |-> FALSE, value |-> <<>>]
      [] src = "ExternalTool" ->
            LET r == pdftotext_title(file.tool)
            IN  IF ~r.raised /\ valid_title(r.value)
                THEN [valid |-> TRUE, value |-> r.value]
                ELSE [valid |-> FALSE, value |-> <<>>]
      [] src = "Filename" ->
            [valid |-> TRUE, value |-> basename(splitext(file.name)[1])]

\* the position in Order of the earliest source whose candidate is valid
EarliestValid == CHOOSE k \in 1..4 :
    Offer(Order[k]).valid /\ \A m \in 1..(k - 1) : ~Offer(Order[m]).valid

\* C1 (fallback totality): pdf_title never raises, and the string it returns
\* is not empty.
C1_FallbackTotality ==
    /\ pc # "raised"
    /\ pc = "returned" => Len(title) > 0

\* C2 (strategy ordering): the sources are consulted in the order Metadata,
\* LayoutText, ExternalTool, Filename, each at most once; a source is
\* consulted only when no earlier source offered a valid candidate; and
\* what pdf_title returns is the candidate of the earliest source with a
\* valid candidate, after which no further source is consulted.
C2_StrategyOrdering ==
    /\ pc # "idle" => Len(invoked) <= 4 /\ invoked = SubSeq(Order, 1, Len(invoked))
    /\ \A k \in 1..Len(invoked) : \A m \in 1..(k - 1) : ~Offer(Order[m]).valid
    /\ pc = "returned" =>
          /\ source = Order[EarliestValid]
          /\ title = Offer(source).value
          /\ Len(invoked) = EarliestValid

\* C2 witness: the external tool's candidate is returned after the metadata
\* and the layout stage gave no valid one.
C2_Witness ==
    /\ pc = "returned"
    /\ source = "ExternalTool"
    /\ invoked = <<"Metadata", "LayoutText", "ExternalTool">>

\* C3 (returned titles are valid): a title returned from the Metadata,
\* LayoutText or ExternalTool source is non-empty after trimming, is not
\* junk and has an empty os.path.splitext extension; the Filename source is
\* the only one whose title may fail that test.
C3_ReturnedTitleValid ==
    pc = "returned" =>
        \/ source = "Filename"
        \/ /\ source \in {"Metadata", "LayoutText", "ExternalTool"}
           /\ Len(Strip(title)) > 0
           /\ ~junk_line(title)
           /\ Len(Strip(splitext(title)[2])) = 0

\* C3 witness: a metadata title with dots in it was refused, and the layout
\* title is returned.
C3_Witness ==
    /\ pc = "returned"
    /\ source = "LayoutText"
    /\ ~meta_title(file.doc).raised
    /\ Len(splitext(meta_title(file.doc).value.s)[2]) > 0

\* the input of the end-to-end example: no metadata title, and a first page
\* whose largest-font line is "Efficient Parsing: A Survey"
EfficientInput ==
    /\ file.doc.readable
    /\ file.doc.docinfo = "None"
    /\ file.doc.pages = <<PageEfficient>>

TitledRecord ==
    IF ~file.doc.readable \/ file.doc.docinfo = "None" THEN 0
    ELSE LET has == {i \in 1..Len(file.doc.docinfo) :
                        file.doc.docinfo[i].keys \cap {"title", "Title", "TITLE"} # {}}
         IN  IF has = {} THEN 0 ELSE CHOOSE i \in has : \A k \in has : i <= k

\* C5 (metadata stage): when the metadata holds a title under the key title,
\* Title or TITLE and that value is a valid candidate, pdf_title returns it
\* from the Metadata stage, and neither the layout pipeline nor the external
\* tool is run.
C5_MetadataTitleReturned ==
    (/\ pc \notin {"idle", "Metadata"}
     /\ TitledRecord > 0
     /\ ~file.doc.docinfo[TitledRecord].value.bytes
     /\ valid_title(file.doc.docinfo[TitledRecord].value.s))
    => /\ invoked = <<"Metadata">>
       /\ source = "Metadata"
       /\ pc = "returned" => title = file.doc.docinfo[TitledRecord].value.s

\* C6 (external tool failure): when the tool exits non-zero or prints
\* nothing, the ExternalTool stage gives no title and pdf_title goes on to
\* Filename and returns the base name of the file.
C6_ToolFailureRecovered ==
    (/\ "ExternalTool" \in Range(invoked)
     /\ pc # "ExternalTool"
     /\ (file.tool.exit # 0 \/ file.tool.out = <<>>))
    => /\ pc # "raised"
       /\ source # "ExternalTool"
       /\ pc = "returned" =>
             source = "Filename" /\ title = basename(splitext(file.name)[1])

(***************************************************************************)
(* Properties of the Largest-Text Tracker, checked under SpecTracker.      *)
(***************************************************************************)
\* C7 (largest-text monotonicity): after every call of update_largest_text
\* in a scan that starts from {contents: "", y0: 0, size: 0}, the size of
\* the tracker is at least what it was before the call.
C7_SizeNeverDecreases ==
    n_updates > 0 => largest_text.size >= before.size

\* C7 witness: a call with a smaller size arrived after a larger one had
\* been recorded.
C7_Witness ==
    /\ n_updates > 1
    /\ before.size = Pt(12)
    /\ call.size < before.size
    /\ largest_text.size = Pt(12)

\* the update neither exceeds the tracker's size by more than TOLERANCE nor
\* fails the relative closeness test
Continuation ==
    /\ n_updates > 0
    /\ ~(call.size - before.size > TOLERANCE)
    /\ is_close(call.size, before.size)

\* the line as it is merged: one trailing newline replaced by a space
MergedLine ==
    IF call.line # <<>> /\ call.line[Len(call.line)] = "\n"
    THEN SubSeq(call.line, 1, Len(call.line) - 1) \o <<" ">>
    ELSE call.line

Merged ==
    largest_text = [contents |-> before.contents \o MergedLine,
                    y0 |-> call.y0, size |-> before.size]

\* C8 as stated: every continuation update appends the line to the
\* contents, takes the incoming y0 and keeps the size.
C8_ContinuationAlwaysMerges == Continuation => Merged

\* the zero-size fallback: both sizes are exactly zero and the incoming y0
\* is more than TOLERANCE below the tracker's y0
ZeroSizeBelow ==
    /\ call.size = 0
    /\ before.size = 0
    /\ call.y0 - before.y0 < -TOLERANCE

\* C8 amended: a continuation update appends the line (its trailing newline
\* replaced by a space) to the contents, takes the incoming y0 and keeps the
\* size, except when both sizes are exactly zero and the incoming y0 is
\* more than TOLERANCE below the tracker's y0: then the tracker is left
\* unchanged.  ("Neural ", 700, 12) then ("Networks", 698, 12.0000005)
\* gives the contents "Neural Networks".
C8_ContinuationMerges ==
    /\ Continuation /\ ~ZeroSizeBelow => Merged
    /\ Continuation /\ ZeroSizeBelow => largest_text = before
    /\ (/\ n_updates = 2
        /\ before = [contents |-> <<"N","e","u","r","a","l"," ">>, y0 |-> Pt(700), size |-> Pt(12)]
        /\ call = [line |-> <<"N","e","t","w","o","r","k","s">>, y0 |-> Pt(698), size |-> Pt(12) + 1])
       => largest_text = [contents |-> <<"N","e","u","r","a","l"," ","N","e","t","w","o","r","k","s">>, y0 |-> Pt(698),
                          size |-> Pt(12)]

\* C8 witness: the two updates of the example have been made.
C8_Witness ==
    /\ n_updates = 2
    /\ before = [contents |-> <<"N","e","u","r","a","l"," ">>, y0 |-> Pt(700), size |-> Pt(12)]
    /\ call = [line |-> <<"N","e","t","w","o","r","k","s">>, y0 |-> Pt(698), size |-> Pt(12) + 1]
    /\ largest_text.contents = <<"N","e","u","r","a","l"," ","N","e","t","w","o","r","k","s">>

(***************************************************************************)
(* Properties of the Figure Reconstructor, checked under SpecFigure.       *)
(***************************************************************************)
\* the glyphs among the children processed so far
SeenGlyphs == SelectSeq(seen, LAMBDA c : c.kind = "char")

\* the number of glyph runs: maximal stretches of glyphs of one size
RunCount ==
    IF SeenGlyphs = <<>> THEN 0
    ELSE 1 + Cardinality({i \in 2..Len(SeenGlyphs) :
                             SeenGlyphs[i].size # SeenGlyphs[i - 1].size})

\* s ends with t
EndsWith(s, t) ==
    Len(s) >= Len(t) /\ SubSeq(s, Len(s) - Len(t) + 1, Len(s)) = t

\* C9 (the last line is not dropped): once the figure has been processed,
\* every glyph run has been fed to the tracker, and the last run, the line
\* that was running when the glyphs ended, has been fed with its y0 and
\* size and stands, with its newline, at the end of the page text.
C9_LastLineFlushed ==
    (fig_pc = "returned" /\ SeenGlyphs # <<>>)
    => /\ Len(fed) >= RunCount
       /\ fed # <<>>
       /\ fed[Len(fed)] = <<fig.line, fig.y0, fig.size>>
       /\ EndsWith(page_text, fig.line \o <<"\n">>)

\* the latest child, and its distance from the glyph before it
LastChild == seen[Len(seen)]
LastGap == Abs(LastChild.x0 - prev.char_previous_x1)

\* the latest child is a glyph of the running size that does not step back
\* to the left, and the parser is in InsideWord when the spacing rule looks
\* at it (it was there already, or InitD has just calibrated)
InsideWordGlyph ==
    /\ fig_pc = "loop"
    /\ seen # <<>>
    /\ LastChild.kind = "char"
    /\ LastChild.size = prev.size
    /\ LastChild.x1 >= prev.char_previous_x1
    /\ prev.state \in {INIT_D, INSIDE_WORD}

\* charDistance as the spacing rule sees it: calibrated by InitD (taken
\* over when under 2.5 times the old one, and at least 0.1), else as it was
Calibrated ==
    IF prev.state = INIT_D
    THEN LET d == IF prev.char_distance > 0 /\ 2 * LastGap < 5 * prev.char_distance
                  THEN LastGap ELSE prev.char_distance
         IN  IF d < 10 THEN 10 ELSE d
    ELSE prev.char_distance

\* the glyph's own text, appended unless it is blank
OwnText == IF LastChild.text = <<" ">> THEN <<>> ELSE LastChild.text

\* the gaps between the glyphs seen
SeenGaps == [i \in 1..(Len(SeenGlyphs) - 1) |->
                Abs(SeenGlyphs[i + 1].x0 - SeenGlyphs[i].x1)]

\* C10 (figure word boundary): for a glyph of the running size that advances
\* left to right with the parser in InsideWord, one space is put before the
\* glyph when its gap exceeds 8.5 times the calibrated charDistance, and
\* none otherwise; five glyphs of one size with the gaps 0.1, 0.1, 1.2, 0.1
\* give one space, before the fourth glyph.
C10_WordBoundary ==
    /\ InsideWordGlyph =>
          IF 2 * LastGap > 17 * Calibrated
          THEN fig.line = prev.line \o <<" ">> \o OwnText
          ELSE fig.line = prev.line \o OwnText
    /\ (/\ Len(seen) = 5
        /\ Len(SeenGlyphs) = 5
        /\ \A i \in 1..5 : seen[i].size = Pt(12) /\ seen[i].text = <<"a">>
        /\ SeenGaps = <<10, 10, 120, 10>>)
       => fig.line = <<"a","a","a"," ","a","a">>

\* C10 witness: the glyphs of the example have been processed, the last one
\* inside a word.
C10_Witness ==
    /\ InsideWordGlyph
    /\ Len(seen) = 5
    /\ \A i \in 1..5 : seen[i].kind = "char" /\ seen[i].size = Pt(12)
                          /\ seen[i].text = <<"a">>
    /\ SeenGaps = <<10, 10, 120, 10>>
    /\ fig.line = <<"a","a","a"," ","a","a">>


(***************************************************************************)
(* Claims about sanitize, junk_line and the Line-Window Selector.          *)
(***************************************************************************)
\* the whitespace-delimited words of a text
Words(s) == SplitWs(s)

\* C11: Sanitizer idempotence: applying sanitize to a result of sanitize
\* gives that result again.
C11_SanitizeIdempotent ==
    text_pc = "sanitize2" => out2 = out

\* C12: Sanitizer bound: a result of sanitize has at most 20
\* whitespace-delimited words and at most 200 characters, and holds only
\* ASCII letters, digits and the characters - _ . ( ) and space.
C12_SanitizeBound ==
    text_pc \in {"sanitize", "sanitize2"} =>
        /\ Len(Words(out)) <= 20
        /\ Len(out) <= 200
        /\ \A i \in 1..Len(out) :
              out[i] \in Range(LowerSeq) \cup Range(UpperSeq) \cup Range(DigitSeq)
                         \cup {"-", "_", ".", "(", ")", " "}

\* a line of digits, dashes and whitespace only, optionally followed by
\* "abstract" or "introduction"
NumberedPlaceholder(line) ==
    \E k \in 1..Len(line) :
        /\ \A i \in 1..k : line[i] \in Range(DigitSeq) \cup {"-", " ", "\t", "\n"}
        /\ \E i \in 1..k : line[i] \in Range(DigitSeq) \cup {"-"}
        /\ Lower(Slice(line, k + 1, Len(line)))
               \in {<<>>, <<"a","b","s","t","r","a","c","t">>, <<"i","n","t","r","o","d","u","c","t","i","o","n">>}

\* a line that is exactly one placeholder word, in any letter case, with an
\* optional trailing colon
WordPlaceholder(line) ==
    Lower(line) \in {w \o c : w \in {<<"a","b","s","t","r","a","c","t">>, <<"u","n","k","n","o","w","n">>, <<"t","i","t","l","e">>, <<"u","n","t","i","t","l","e","d">>},
                              c \in {<<>>, <<":">>}}

\* C13: Junk placeholder rule: junk_line returns true for every line of
\* digits, dashes and whitespace optionally followed by "abstract" or
\* "introduction", and for every line that is exactly abstract, unknown,
\* title or untitled in any letter case with an optional trailing colon.
C13_PlaceholderIsJunk ==
    (text_pc = "junk_line" /\ (NumberedPlaceholder(arg) \/ WordPlaceholder(arg)))
        => out = TRUE

(***************************************************************************)
(* More properties of the Largest-Text Tracker, checked under SpecTracker. *)
(***************************************************************************)
\* C14: Zero-size fallback (first line wins): when the state's size and the
\* incoming size are both exactly zero and the state already holds a line,
\* an update whose y0 is not above the state's y0 (equal to it within
\* TOLERANCE, or below it) leaves contents, y0 and size unchanged.
C14_FirstZeroSizeLineWins ==
    (/\ n_updates > 0
     /\ call.size = 0
     /\ before.size = 0
     /\ before.contents # <<>>
     /\ call.y0 - before.y0 <= TOLERANCE)
        => largest_text = before

\* the state after a replacement by the latest call
Replaced ==
    largest_text = [contents |-> MergedLine, y0 |-> call.y0, size |-> call.size]

\* C15: Tracker ignores only smaller sizes: apart from the zero-size
\* fallback, a call leaves the state unchanged only when its size is
\* strictly smaller than the state's size, and a call whose size is larger
\* than the state's size always replaces the state or continues it, for
\* all non-negative sizes including sizes below 1.
C15_LargerSizeNeverIgnored ==
    /\ (n_updates > 0 /\ ~ZeroSizeBelow /\ largest_text = before)
          => call.size < before.size
    /\ (n_updates > 0 /\ call.size > before.size)
          => (Replaced \/ Merged)

(***************************************************************************)
(* The result of a scan, checked under SpecLogged.                         *)
(***************************************************************************)
\* two sizes more than TOLERANCE apart, absolutely and relatively
WellApart(a, b) ==
    /\ Abs(a - b) > TOLERANCE
    /\ Abs(a - b) > Max(a, b) \div TOLERANCE_INV

\* the sizes of the scan are positive and pairwise equal or well apart
SeparatedSizes ==
    /\ calls # <<>>
    /\ \A i \in 1..Len(calls) : calls[i].size > 0
    /\ \A i, j \in 1..Len(calls) :
          calls[i].size = calls[j].size \/ WellApart(calls[i].size, calls[j].size)

MaxSize == CHOOSE m \in {calls[i].size : i \in 1..Len(calls)} :
               \A i \in 1..Len(calls) : calls[i].size <= m

\* a line as the tracker takes it: one trailing newline replaced by a space
TakenLine(l) ==
    IF l # <<>> /\ l[Len(l)] = "\n" THEN SubSeq(l, 1, Len(l) - 1) \o <<" ">> ELSE l

\* the lines of the largest size, concatenated in scan order
LargestLines ==
    Cat([i \in 1..Len(calls) |->
            IF calls[i].size = MaxSize THEN TakenLine(calls[i].line) ELSE <<>>],
        1, Len(calls))

LastLargest == CHOOSE i \in 1..Len(calls) :
                   /\ calls[i].size = MaxSize
                   /\ \A j \in (i + 1)..Len(calls) : calls[j].size # MaxSize

\* C20: Implicit result of a scan: for any sequence of updates whose sizes
\* are positive and pairwise either equal or more than TOLERANCE apart, the
\* final size is the maximum size of the sequence, the contents are the
\* lines of that size concatenated in scan order, and y0 is the y0 of the
\* last such line.
C20_ScanResult ==
    SeparatedSizes =>
        /\ largest_text.size = MaxSize
        /\ largest_text.contents = LargestLines
        /\ largest_text.y0 = calls[LastLargest].y0

(***************************************************************************)
(* The Line-Window Selector, checked under SpecLines.  Positions are the   *)
(* 0-based indices of the lines, as in the program.                        *)
(***************************************************************************)
\* the lines the selector is given
GivenLines == Split(Strip(arg), "\n")

\* the line at a 0-based index is empty
Blank(lines, i) == i < Len(lines) /\ Len(Strip(lines[i + 1])) = 0

\* the first line that is neither empty nor junk, 0 if there is none
WindowStart(lines) ==
    LET good == {i \in 0..(Len(lines) - 1) :
                    ~Blank(lines, i) /\ ~junk_line(lines[i + 1])}
    IN  IF good = {} THEN 0 ELSE CHOOSE i \in good : \A k \in good : i <= k

\* the first empty line among start+1 and start+2, start+1 if neither is
WindowEnd(lines, start) ==
    IF Blank(lines, start + 1) THEN start + 1
    ELSE IF Blank(lines, start + 2) THEN start + 2
    ELSE start + 1

\* the lines of the window [start, end) that exist
WindowSize(lines, start) ==
    Cardinality({i \in start..(WindowEnd(lines, start) - 1) : i < Len(lines)})

\* C16: Line-Window Selector: start is the first line that is neither
\* empty nor junk (0 if there is none), end is the first empty line among
\* start+1 and start+2 (start+1 if neither is empty), the result is the
\* trimmed lines [start, end) joined by single spaces; the window holds
\* one or two lines, and two exactly when line start+1 is non-empty and
\* line start+2 exists and is empty.
C16_LineWindow ==
    text_pc = "window" =>
        LET lines == GivenLines
            start == WindowStart(lines)
            size == WindowSize(lines, start)
        IN  /\ out = IF size = 2
                     THEN Strip(lines[start + 1]) \o <<" ">> \o Strip(lines[start + 2])
                     ELSE Strip(lines[start + 1])
            /\ size \in {1, 2}
            /\ size = 2 <=>
                  /\ start + 2 < Len(lines)
                  /\ ~Blank(lines, start + 1)
                  /\ Blank(lines, start + 2)

\* C16 witness: a window of two lines that starts after a junk line.
C16_Witness ==
    /\ text_pc = "window"
    /\ WindowStart(GivenLines) = 1
    /\ WindowSize(GivenLines, 1) = 2
    /\ out = <<"A"," ","S","u","r","v","e","y"," ","o","f"," ","P","a","r","s","i","n","g"," ","S","e","c","o","n","d"," ","P","a","r","t">>

(***************************************************************************)
(* The page scan, checked under SpecScan.                                  *)
(***************************************************************************)
\* the latest layout object is a grouped text block (LTTextBox, LTTextLine)
LatestObject == scanned[Len(scanned)]
BlockScanned ==
    /\ scan_pc = "loop"
    /\ scanned # <<>>
    /\ LatestObject.kind \in {"box", "line"}

\* the count of non-whitespace characters of the latest object
VisibleCount ==
    LET t == get_text(LatestObject)
    IN  Cardinality({i \in 1..Len(t) : t[i] \notin {" ", "\t", "\n"}})

\* the latest object updated the tracker and was appended to the page text
Processed ==
    /\ scan[1] = extract_largest_text(LatestObject, scan_prev[1])
    /\ scan[2] = scan_prev[2] \o get_text(LatestObject) \o <<"\n">>

\* C17: Body-block skip threshold: a grouped text block is skipped (it
\* neither updates the tracker nor is appended to the page text) exactly
\* when its count of non-whitespace characters exceeds 40 x MAX_WORDS
\* (= 800); blocks with at most 800 visible characters are always processed.
C17_SkipAbove800 ==
    BlockScanned =>
        /\ VisibleCount > 800 => scan = scan_prev
        /\ VisibleCount <= 800 => Processed

\* the lines of a grouped object: its LTTextLine children, or the object
\* itself when it is an LTTextLine
LinesOf(obj) ==
    IF obj.kind = "line" THEN <<obj>>
    ELSE SelectSeq(obj.chars, LAMBDA c : c.kind = "line")

GlyphsOf(line) == SelectSeq(line.chars, LAMBDA c : c.kind = "char")

\* one update per line of at least two glyphs, with the y0 and size of the
\* glyph after the first
RECURSIVE SecondGlyphSampling(_, _, _)
SecondGlyphSampling(obj, lines, lt) ==
    IF lines = <<>> THEN lt
    ELSE LET g == GlyphsOf(Head(lines))
             text == IF obj.kind = "line" THEN get_text(obj) ELSE get_text(Head(lines))
         IN  SecondGlyphSampling(obj, Tail(lines),
                 IF Len(g) >= 2
                 THEN update_largest_text(text, g[2].y0, g[2].size, lt)
                 ELSE lt)

\* C18: Grouped-text sampling: for each grouped line only the first glyph
\* is skipped and the tracker is updated exactly once per line, with the
\* line's text and the y0 and size of the first glyph after the skipped
\* one; every line with at least two glyphs produces one tracker update.
C18_SecondGlyphSampled ==
    (BlockScanned /\ VisibleCount <= 2 * MAX_CHARS) =>
        scan[1] = SecondGlyphSampling(LatestObject, LinesOf(LatestObject), scan_prev[1])

(***************************************************************************)
(* The calibration of the Figure Reconstructor, checked under SpecFigure.  *)
(***************************************************************************)
\* the latest child was a glyph of the running size, looked at in InitD
CalibratedByLatest ==
    /\ seen # <<>>
    /\ seen[Len(seen)].kind = "char"
    /\ seen[Len(seen)].size = prev.size
    /\ prev.state = INIT_D

\* C19: Implicit invariant of the figure reconstructor: whenever the
\* parsing state is InsideWord, charDistance is at least 0.1; a glyph
\* looked at in InsideWord never lowers charDistance, and charDistance is
\* lowered only by the InitD calibration, which leaves it at 0.1 or more.
C19_CharDistanceFloor ==
    /\ fig.state = INSIDE_WORD => fig.char_distance >= 10
    /\ (seen # <<>> /\ prev.state = INSIDE_WORD)
          => fig.char_distance >= prev.char_distance
    /\ fig.char_distance < prev.char_distance
          => (CalibratedByLatest /\ fig.char_distance >= 10)

\* C19 witness: the InitD calibration has just lowered charDistance, from
\* 0.2 to 0.1, and the parser is in InsideWord.
C19_Witness ==
    /\ fig_pc = "loop"
    /\ CalibratedByLatest
    /\ prev.char_distance = 20
    /\ fig.char_distance = 10
    /\ fig.state = INSIDE_WORD
====
